---- MODULE Spec2Model ----
(***************************************************************************)
(* The trace lifecycle of the Mirador ingest SDK: one Trace instance, its  *)
(* builder operations, create() with retryWithBackoff, the keep-alive      *)
(* timer and close(), run on a single event loop against a gateway whose   *)
(* answers are nondeterministic.                                           *)
(***************************************************************************)
EXTENDS Integers, Sequences, FiniteSets, TLC

\* ---------------------------------------------------------------- bounds
MaxRetriesBound == 1        \* options.maxRetries is drawn from 0..MaxRetriesBound
RetryBound == 3             \* the same, where only the retry loop is explored
MaxCreateCalls == 2         \* create() invocations per trace
MaxKeepAliveInFlight == 2   \* keepAlive calls awaiting their response
MaxContent == 1             \* length of the tags, events and txHashHints arrays
MaxOrdered == 2             \* that length where the order of the entries is explored
MaxUnaryCalls == 2          \* unary calls made through one NodeGrpcRpc
MaxObservables == 1         \* serverStreamingRequest() calls on one NodeGrpcRpc
MaxStreams == 2             \* subscriptions to the observables of one NodeGrpcRpc
MaxChunks == 2              \* data events of the server-streaming calls together

\* ------------------------------------------------------------ JS values
NULL == "null"
UNDEFINED == "undefined"
EMPTY == ""
PENDING == "pending"        \* a promise that has not settled
REJECTED == "rejected"      \* a promise that settled by rejection
Truthy(x) == x \notin {NULL, UNDEFINED, EMPTY}

BackoffValues == {1, 3, 100}     \* options.retryBackoff where the retry loop is explored
LifecycleBackoffs == {1}    \* options.retryBackoff elsewhere
ServerIds == {"t1"}         \* trace ids the gateway hands out
ResumeIds == {"r1"}         \* trace ids passed in by the caller
PeerServerIds == {"t2"}     \* trace ids the gateway hands out to a second trace
AttrKeys == {"k"}
\* values handed to addAttribute: what String(value) and JSON.stringify(value) give
AttrInputs == {[isObject |-> TRUE, string |-> "[object Object]", json |-> "{}"]}
TagInputs == {"a"}
EventNames == {"e"}
TxHashes == {"0xh"}
Chains == {"ethereum"}
Reasons == {UNDEFINED, "done"}

\* what the gateway may answer to _sendTrace / _updateTrace
CreateResponses ==
    [kind : {"throw"}, success : {FALSE}, traceId : {EMPTY}]
    \cup [kind : {"resp"}, success : {FALSE}, traceId : {EMPTY}]
    \cup [kind : {"resp"}, success : {TRUE}, traceId : ServerIds \cup {EMPTY}]
UpdateResponses ==
    [kind : {"throw"}, success : {FALSE}, traceId : {EMPTY}]
    \cup [kind : {"resp"}, success : {TRUE, FALSE}, traceId : {EMPTY}]
\* what it may answer to _keepAlive / _closeTrace
AcceptResponses == {"accepted", "notAccepted", "throw"}

\* options of addTxHint: absent, a details string, or a TxHintOptions object
TxInputs ==                 \* tx: TransactionLike of addTx
    {[hash |-> "0xh", chainId |-> 1, data |-> UNDEFINED, input |-> UNDEFINED],
     [hash |-> "0xh", chainId |-> 1, data |-> "0xdd", input |-> UNDEFINED],
     [hash |-> "0xi", chainId |-> 137, data |-> UNDEFINED, input |-> "0xdd"]}
TxHintOptionInputs ==
    {[kind |-> "none", input |-> UNDEFINED, details |-> UNDEFINED],
     [kind |-> "object", input |-> "0xdd", details |-> "d"],
     [kind |-> "object", input |-> "0x", details |-> UNDEFINED]}

\* ------------------------------------------------------ transport inputs
ApiKeys == {UNDEFINED, EMPTY, "key"}      \* the apiKey given to new NodeGrpcRpc
Services == {"gateway.ingest.v1.IngestGatewayService"}
Methods == {"CreateTrace"}
RequestBytes == {<<1>>}                   \* data: Uint8Array
ChannelErrors == {NULL, "UNAVAILABLE", "DEADLINE_EXCEEDED"}   \* err of the callback
NoValue == [present |-> FALSE, bytes |-> <<>>]                \* value is undefined
ChannelValues ==                                              \* value?: Buffer
    {NoValue, [present |-> TRUE, bytes |-> <<>>], [present |-> TRUE, bytes |-> <<7>>]}
NoResponseReceived == "No response received"
Chunks == {<<7>>, <<8>>}                  \* response: Buffer of a data event
StreamErrors == {"UNAVAILABLE"}                               \* err of an error event
ClientStreamingNotImplemented == "Client streaming not yet implemented"
BidirectionalNotImplemented == "Bidirectional streaming not yet implemented"

VARIABLES
    maxRetries,       \* Trace.maxRetries
    retryBackoff,     \* Trace.retryBackoff
    contentCap,       \* how many tags, events and tx hints the caller adds at most
    traceId,          \* Trace.traceId
    closed,           \* Trace.closed
    keepAliveTimer,   \* Trace.keepAliveTimer: TRUE iff an interval handle is held
    intervals,        \* intervals this trace has set and not cleared
    attributes,       \* Trace.attributes: key -> string, UNDEFINED when absent
    tags,             \* Trace.tags
    events,           \* Trace.events (timestamps left out)
    txHashHints,      \* Trace.txHashHints (timestamps left out)
    creates,          \* the create() calls that have not resolved, in call order
    createInvoked,    \* number of create() invocations so far
    lastCreate,       \* the create() call that resolved last
    anyCallOk,        \* a _sendTrace/_updateTrace call was answered with a success status
    sendGaveId,       \* a _sendTrace call was answered with success and a trace id
    kaInFlight,       \* _keepAlive calls issued and not yet settled
    closePc,          \* the close() that set the closed flag: none/calling/done
    closeRepeated,    \* a close() call found the trace closed already
    closeTraceCalls,  \* number of _closeTrace calls issued
    closeReq,         \* the CloseTraceRequest of the issued call
    closedWarning,    \* method named by the last 'Trace is closed' warning
    kaRejected,       \* a keepAlive response with accepted = false was processed
    kaUnhandled,      \* a sendKeepAlive() promise, which nothing awaits, was rejected
    traceIdRead,      \* what the last getTraceId() call returned
    peer,             \* a second Trace of the same client: its fields and its create()
    apiKey,           \* NodeGrpcRpc.apiKey
    callerMetadata,   \* api key entries of the grpc.Metadata object a caller reuses
    unaryCalls,       \* the request() calls made: what was sent and how each settled
    perCallClient,    \* which NodeGrpcRpc class of grpc/index.ts this instance is of
    connections,      \* grpc.Client / grpc.Channel objects this instance has created
    observables,      \* Observables returned by serverStreamingRequest()
    streams,          \* one record per subscription: its call and its subscriber
    thrown            \* message of the Error an unsupported operation threw last

content == <<attributes, tags, events, txHashHints>>
config == <<maxRetries, retryBackoff, contentCap>>
closeVars == <<closePc, closeRepeated, closeTraceCalls, closeReq>>
unaryVars == <<callerMetadata, unaryCalls>>
streamVars == <<observables, streams>>
transportVars == <<apiKey, unaryVars, perCallClient, connections, streamVars, thrown>>
elsewhere == <<peer, transportVars>>     \* state of other objects than this trace
outside == <<traceIdRead, elsewhere>>    \* what no method but getTraceId touches
createVars == <<createInvoked, lastCreate, anyCallOk, sendGaveId>>
vars == <<maxRetries, retryBackoff, contentCap, traceId, closed, keepAliveTimer, intervals, attributes,
          tags, events, txHashHints, creates, createInvoked, lastCreate, anyCallOk,
          sendGaveId, kaInFlight, closePc, closeRepeated, closeTraceCalls, closeReq,
          closedWarning, kaRejected, kaUnhandled, traceIdRead, peer, apiKey, callerMetadata,
          unaryCalls, perCallClient, connections, observables, streams, thrown>>

\* --------------------------------------------------------------- Init
\* client.trace() without options: a second Trace, here with maxRetries 0
NewPeer == [traceId |-> NULL, closed |-> FALSE, keepAliveTimer |-> FALSE, tags |-> <<>>,
            pc |-> "idle", path |-> "none", result |-> PENDING]

\* new Trace(client, options): options.traceId ?? null, no timer, not closed
InitTraceWith(retries, backoffs, ids, cap) ==
    /\ maxRetries \in retries
    /\ retryBackoff \in backoffs
    /\ contentCap = cap
    /\ traceId \in ids
    /\ closed = FALSE
    /\ keepAliveTimer = FALSE
    /\ intervals = 0
    /\ attributes = [k \in AttrKeys |-> UNDEFINED]
    /\ tags = <<>>
    /\ events = <<>>
    /\ txHashHints = <<>>
    /\ creates = <<>>
    /\ createInvoked = 0
    /\ lastCreate = [path |-> "none", attempt |-> 0, sleeps |-> <<>>, outcome |-> "none",
                     result |-> PENDING, thrown |-> <<>>]
    /\ anyCallOk = FALSE
    /\ sendGaveId = FALSE
    /\ kaInFlight = 0
    /\ closePc = "none"
    /\ closeRepeated = FALSE
    /\ closeTraceCalls = 0
    /\ closeReq = NULL
    /\ closedWarning = "none"
    /\ kaRejected = FALSE
    /\ kaUnhandled = FALSE
    /\ traceIdRead = "unread"
    /\ peer = NewPeer

InitTrace(retries, backoffs, ids) == InitTraceWith(retries, backoffs, ids, MaxContent)

\* a transport that no call is made through
NoCalls ==
    /\ callerMetadata = <<>>
    /\ unaryCalls = <<>>
    /\ connections = 1
    /\ observables = 0
    /\ streams = <<>>
    /\ thrown = NULL

TransportIdle ==
    /\ apiKey = UNDEFINED
    /\ perCallClient = FALSE
    /\ NoCalls

InitWith(retries, backoffs, ids) == InitTrace(retries, backoffs, ids) /\ TransportIdle

Init == InitWith(0..MaxRetriesBound, LifecycleBackoffs, {NULL} \cup ResumeIds)

\* ------------------------------------------------------ builder methods
lifecycleVars == <<config, outside, traceId, closed, keepAliveTimer, intervals, creates, createVars,
                   kaInFlight, closeVars, kaRejected, kaUnhandled>>

\* if (this.closed) { console.warn(...); return this; }
IgnoredWhenClosed(method) ==
    /\ closed
    /\ closedWarning' = method
    /\ UNCHANGED <<content, lifecycleVars>>

\* typeof value === 'object' && value !== null ? JSON.stringify(value) : String(value)
AttributeString(value) == IF value.isObject THEN value.json ELSE value.string

addAttribute(key, value) ==
    \/ IgnoredWhenClosed("addAttribute")
    \/ /\ ~closed
       /\ attributes' = [attributes EXCEPT ![key] = AttributeString(value)]
       /\ UNCHANGED <<tags, events, txHashHints, closedWarning, lifecycleVars>>

\* Object.entries(attributes) of a one-key or empty object
addAttributes(attrs) ==
    \/ IgnoredWhenClosed("addAttributes")
    \/ /\ ~closed
       /\ attributes' = [k \in AttrKeys |->
                           IF k \in DOMAIN attrs THEN AttributeString(attrs[k])
                                                 ELSE attributes[k]]
       /\ UNCHANGED <<tags, events, txHashHints, closedWarning, lifecycleVars>>

addTagUnguarded(tag) ==
    /\ Len(tags) < contentCap
    /\ tags' = Append(tags, tag)
    /\ UNCHANGED <<attributes, events, txHashHints, closedWarning, lifecycleVars>>

addTag(tag) ==
    \/ IgnoredWhenClosed("addTag")
    \/ /\ ~closed
       /\ Len(tags) < contentCap
       /\ tags' = Append(tags, tag)
       /\ UNCHANGED <<attributes, events, txHashHints, closedWarning, lifecycleVars>>

addTags(ts) ==
    \/ IgnoredWhenClosed("addTags")
    \/ /\ ~closed
       /\ Len(tags) + Len(ts) <= contentCap
       /\ tags' = tags \o ts
       /\ UNCHANGED <<attributes, events, txHashHints, closedWarning, lifecycleVars>>

\* addEvent(eventName, details) with string or absent details, no options
addEventStartingTimer(eventName, details) ==
    /\ ~closed
    /\ Len(events) < contentCap
    /\ events' = Append(events, [eventName |-> eventName, details |-> details])
    /\ keepAliveTimer' = TRUE
    /\ intervals' = intervals + 1
    /\ UNCHANGED <<attributes, tags, txHashHints, closedWarning, config, outside, traceId,
                   closed, creates, createVars, kaInFlight, closeVars, kaRejected, kaUnhandled>>

addEvent(eventName, details) ==
    \/ IgnoredWhenClosed("addEvent")
    \/ /\ ~closed
       /\ Len(events) < contentCap
       /\ events' = Append(events, [eventName |-> eventName, details |-> details])
       /\ UNCHANGED <<attributes, tags, txHashHints, closedWarning, lifecycleVars>>

\* addTxInputData(inputData) as called from addTxHint on an open trace
EventsWithTxInput(evs, input) ==
    IF ~Truthy(input) \/ input = "0x"
      THEN evs
      ELSE Append(evs, [eventName |-> "Tx input data", details |-> input])

addTxHint(txHash, chain, options) ==
    \/ IgnoredWhenClosed("addTxHint")
    \/ /\ ~closed
       /\ Len(txHashHints) < contentCap
       /\ events' = IF options.kind = "object" /\ Truthy(options.input)
                      THEN EventsWithTxInput(events, options.input)
                      ELSE events
       /\ Len(events') <= contentCap
       /\ txHashHints' = Append(txHashHints,
              [txHash |-> txHash, chain |-> chain, details |-> options.details])
       /\ UNCHANGED <<attributes, tags, closedWarning, lifecycleVars>>

\* CHAIN_ID_MAP[Number(chainId)], of a numeric chain id
chainIdToName(chainId) ==
    IF chainId = 1 THEN "ethereum" ELSE IF chainId = 137 THEN "polygon" ELSE UNDEFINED

\* resolveChain(chain, chainId) of a trace without provider, where one of the
\* two names a known chain
resolveChain(chain, chainId) ==
    IF Truthy(chain) THEN chain ELSE chainIdToName(chainId)

\* addTx(tx, chain): the input of the transaction goes to addTxInputData, and
\* the hint is added by addTxHint(tx.hash, resolvedChain), without options
addTx(tx, chain) ==
    \/ IgnoredWhenClosed("addTx")
    \/ /\ ~closed
       /\ Len(txHashHints) < contentCap
       /\ events' = EventsWithTxInput(events,
                        IF tx.data # UNDEFINED THEN tx.data ELSE tx.input)
       /\ Len(events') <= contentCap
       /\ txHashHints' = Append(txHashHints,
              [txHash |-> tx.hash, chain |-> resolveChain(chain, tx.chainId),
               details |-> UNDEFINED])
       /\ UNCHANGED <<attributes, tags, closedWarning, lifecycleVars>>

setTraceIdReopening(id) ==
    /\ traceId' = id
    /\ closed' = FALSE
    /\ UNCHANGED <<content, config, outside, keepAliveTimer, intervals, creates, createVars,
                   kaInFlight, closeVars, closedWarning, kaRejected, kaUnhandled>>

setTraceId(id) ==
    /\ IF closed
         THEN closedWarning' = "setTraceId" /\ UNCHANGED traceId
         ELSE traceId' = id /\ UNCHANGED closedWarning
    /\ UNCHANGED <<content, config, outside, closed, keepAliveTimer, intervals, creates, createVars,
                   kaInFlight, closeVars, kaRejected, kaUnhandled>>

\* getTraceId(): return this.traceId
getTraceIdNullUntilCreated ==
    /\ traceIdRead' = IF anyCallOk THEN traceId ELSE NULL
    /\ UNCHANGED <<content, config, traceId, closed, keepAliveTimer, intervals, creates, createVars,
                   kaInFlight, closeVars, closedWarning, kaRejected, kaUnhandled, elsewhere>>

getTraceId ==
    /\ traceIdRead' = traceId
    /\ UNCHANGED <<content, config, traceId, closed, keepAliveTimer, intervals, creates, createVars,
                   kaInFlight, closeVars, closedWarning, kaRejected, kaUnhandled, elsewhere>>

\* ------------------------------------------------------------ keep-alive
\* startKeepAlive(): the timer handle after the call, given the handle before
startKeepAliveNever(timer, id, isClosed) == timer

startKeepAliveUnguarded(timer, id, isClosed) == TRUE

\* if (this.keepAliveTimer || !this.traceId || this.closed) return
KeepAliveStartSkippedDespiteTimer(timer, id, isClosed) == ~Truthy(id) \/ isClosed

KeepAliveStartSkipped(timer, id, isClosed) == timer \/ ~Truthy(id) \/ isClosed

startKeepAlive(timer, id, isClosed) ==
    IF KeepAliveStartSkipped(timer, id, isClosed) THEN timer ELSE TRUE

\* setInterval(...) of startKeepAlive(): one more interval is set
setInterval(n, timer, id, isClosed) ==
    IF KeepAliveStartSkipped(timer, id, isClosed) THEN n ELSE n + 1

\* stopKeepAlive(): clearInterval and keepAliveTimer = null
stopKeepAliveForgotten(timer) == timer

stopKeepAlive(timer) == FALSE

\* clearInterval(this.keepAliveTimer) of stopKeepAlive(), if (this.keepAliveTimer)
clearIntervalKept(n, timer) == n

clearInterval(n, timer) == IF timer THEN n - 1 ELSE n

\* the guard of sendKeepAlive: if (!this.traceId || this.closed) return
KeepAliveSkippedInverted == Truthy(traceId) \/ closed

KeepAliveSkipped == ~Truthy(traceId) \/ closed

\* one tick of the interval: sendKeepAlive() up to its await
sendKeepAliveAwaitingResponse ==
    /\ keepAliveTimer
    /\ kaInFlight = 0
    /\ kaInFlight' = IF KeepAliveSkipped THEN kaInFlight ELSE kaInFlight + 1
    /\ UNCHANGED <<content, config, outside, traceId, closed, keepAliveTimer, intervals, creates,
                   createVars, closeVars, closedWarning, kaRejected, kaUnhandled>>

sendKeepAlive ==
    /\ keepAliveTimer
    /\ kaInFlight < MaxKeepAliveInFlight
    /\ kaInFlight' = IF KeepAliveSkipped THEN kaInFlight ELSE kaInFlight + 1
    /\ UNCHANGED <<content, config, outside, traceId, closed, keepAliveTimer, intervals, creates,
                   createVars, closeVars, closedWarning, kaRejected, kaUnhandled>>

\* if (!response.accepted): the branch that stops the timer
KeepAliveStopsOnError(r) == r # "accepted"

KeepAliveStops(r) == r = "notAccepted"

\* catch (error) { console.error(...) }: the promise of the tick is never rejected
KeepAliveErrorEscapes(r) == FALSE

\* sendKeepAlive() from its await on: the response or the caught error
keepAliveSettle(r) ==
    /\ kaInFlight > 0
    /\ kaInFlight' = kaInFlight - 1
    /\ keepAliveTimer' = IF KeepAliveStops(r) THEN stopKeepAlive(keepAliveTimer)
                                              ELSE keepAliveTimer
    /\ intervals' = IF KeepAliveStops(r) THEN clearInterval(intervals, keepAliveTimer)
                                         ELSE intervals
    /\ kaRejected' = (kaRejected \/ r = "notAccepted")
    /\ kaUnhandled' = (kaUnhandled \/ KeepAliveErrorEscapes(r))
    /\ UNCHANGED <<content, config, outside, traceId, closed, creates, createVars, closeVars,
                   closedWarning>>

\* --------------------------------------------------------------- retry
RECURSIVE Pow(_, _)
Pow(b, e) == IF e = 0 THEN 1 ELSE b * Pow(b, e - 1)

\* const delay = this.retryBackoff * Math.pow(2, attempt)
BackoffDelayLinear(attempt) == retryBackoff * (attempt + 1)

BackoffDelay(attempt) == retryBackoff * Pow(2, attempt)

\* if (attempt < this.maxRetries): another attempt follows the failed one
ShouldRetryOneMore(attempt) == attempt <= maxRetries

ShouldRetry(attempt) == attempt < maxRetries

\* lastError = err as Error; the error an attempt rejected with is named by the
\* number of the attempt, <<>> is undefined
LastError(previous, attempt) == <<attempt>>

\* ------------------------------------------------------------ create()
\* what create() resolves to from its catch blocks
CreateCaughtRethrown == REJECTED

CreateCaught == UNDEFINED

NoCreate == [path |-> "none", attempt |-> 0, sleeps |-> <<>>, outcome |-> "none",
             result |-> PENDING, thrown |-> <<>>]

\* the record of a create() that has resolved
Resolved(c, outcome, result) ==
    [path |-> c.path, attempt |-> c.attempt, sleeps |-> c.sleeps,
     outcome |-> outcome, result |-> result,
     thrown |-> IF outcome = "threw" THEN c.lastError ELSE <<>>]

Remove(seq, i) == SubSeq(seq, 1, i - 1) \o SubSeq(seq, i + 1, Len(seq))

\* if (this.traceId): a trace that has an id is updated, one without is created
CreatePathAlwaysSend(id) == "send"

CreatePath(id) == IF Truthy(id) THEN "update" ELSE "send"

\* create() up to the first await: closed check, path choice, first attempt issued
\* const CHAIN_MAP: Record<ChainName, Chain>
CHAIN_MAP == [c \in {"ethereum", "polygon"} |->
                 IF c = "ethereum" THEN "CHAIN_ETHEREUM" ELSE "CHAIN_POLYGON"]

\* this.events.map((e) => ({ name: e.eventName, details: e.details, ... }))
EventsToSendReversed(evs) ==
    [k \in 1..Len(evs) |-> [name |-> evs[Len(evs) + 1 - k].eventName,
                            details |-> evs[Len(evs) + 1 - k].details]]

EventsToSend(evs) ==
    [k \in 1..Len(evs) |-> [name |-> evs[k].eventName, details |-> evs[k].details]]

\* this.txHashHints.map((hint) => ({ chain: CHAIN_MAP[hint.chain], txHash, details, ... }))
TxHashHintsToSend(hints) ==
    [k \in 1..Len(hints) |-> [chain |-> CHAIN_MAP[hints[k].chain],
                              txHash |-> hints[k].txHash, details |-> hints[k].details]]

\* buildTraceData(), for a trace made without captureStackTrace: the attributes
\* are copied and wrapped when a key is set, events and txHashHints are mapped
\* into new arrays, and the tags entry holds the Trace's own tags array
\* (tagsHeld) when that array is not empty (timestamps left out)
buildTraceData ==
    [attributes |-> IF \E k \in AttrKeys : attributes[k] # UNDEFINED
                      THEN <<attributes>> ELSE <<>>,
     tagsHeld |-> tags # <<>>,
     events |-> EventsToSend(events),
     txHashHints |-> TxHashHintsToSend(txHashHints)]

\* what a call made with the request holding data puts on the wire: the tags
\* entry is read through the held array at the time of the call
Encoded(data, tagsNow) ==
    [attributes |-> data.attributes,
     tags |-> IF data.tagsHeld THEN <<tagsNow>> ELSE <<>>,
     events |-> data.events,
     txHashHints |-> data.txHashHints]

create ==
    /\ createInvoked < MaxCreateCalls
    /\ createInvoked' = createInvoked + 1
    /\ IF closed
         THEN /\ closedWarning' = "create"
              /\ lastCreate' = [NoCreate EXCEPT !.result = UNDEFINED]
              /\ UNCHANGED creates
         ELSE /\ creates' = Append(creates,
                    [pc |-> "calling",
                     path |-> CreatePath(traceId),
                     attempt |-> 0, sleeps |-> <<>>, lastError |-> <<>>,
                     reqId |-> IF CreatePath(traceId) = "update" THEN traceId ELSE NULL,
                     data |-> buildTraceData,
                     sent |-> <<Encoded(buildTraceData, tags)>>])
              /\ UNCHANGED <<closedWarning, lastCreate>>
    /\ UNCHANGED <<content, config, outside, traceId, closed, keepAliveTimer, intervals, kaInFlight,
                   closeVars, kaRejected, kaUnhandled, anyCallOk, sendGaveId>>

\* retryWithBackoff: the attempt threw and attempts remain: sleep(delay)
createRetry(i) ==
    /\ i \in 1..Len(creates)
    /\ creates[i].pc = "calling"
    /\ ShouldRetry(creates[i].attempt)
    /\ creates' = [creates EXCEPT ![i].pc = "sleeping",
                                  ![i].lastError = LastError(@, creates[i].attempt),
                                  ![i].sleeps = Append(@, BackoffDelay(creates[i].attempt))]
    /\ UNCHANGED <<content, config, outside, traceId, closed, keepAliveTimer, intervals, kaInFlight,
                   closeVars, closedWarning, kaRejected, kaUnhandled, createInvoked, lastCreate,
                   anyCallOk, sendGaveId>>

\* retryWithBackoff: the sleep is over, the loop issues the next attempt
createWakeLost(i) ==
    /\ i \in 1..Len(creates)
    /\ creates[i].pc = "sleeping"
    /\ UNCHANGED vars

createWake(i) ==
    /\ i \in 1..Len(creates)
    /\ creates[i].pc = "sleeping"
    /\ creates' = [creates EXCEPT ![i].pc = "calling", ![i].attempt = @ + 1,
                                  ![i].sent = Append(@, Encoded(creates[i].data, tags))]
    /\ UNCHANGED <<content, config, outside, traceId, closed, keepAliveTimer, intervals, kaInFlight,
                   closeVars, closedWarning, kaRejected, kaUnhandled, createInvoked, lastCreate,
                   anyCallOk, sendGaveId>>

\* retryWithBackoff: the last attempt threw: throw lastError, caught by create()
createExhausted(i) ==
    /\ i \in 1..Len(creates)
    /\ creates[i].pc = "calling"
    /\ ~ShouldRetry(creates[i].attempt)
    /\ creates' = Remove(creates, i)
    /\ lastCreate' = Resolved([creates[i] EXCEPT
                                   !.lastError = LastError(@, creates[i].attempt)],
                               "threw", CreateCaught)
    /\ UNCHANGED <<content, config, outside, traceId, closed, keepAliveTimer, intervals, kaInFlight,
                   closeVars, closedWarning, kaRejected, kaUnhandled, createInvoked, anyCallOk,
                   sendGaveId>>

\* the resume path after await retryWithBackoff(_updateTrace): the response is not read
createResumed(i, r) ==
    /\ i \in 1..Len(creates)
    /\ creates[i].pc = "calling"
    /\ creates[i].path = "update"
    /\ r \in UpdateResponses /\ r.kind = "resp"
    /\ keepAliveTimer' = startKeepAlive(keepAliveTimer, traceId, closed)
    /\ intervals' = setInterval(intervals, keepAliveTimer, traceId, closed)
    /\ creates' = Remove(creates, i)
    /\ lastCreate' = Resolved(creates[i], IF r.success THEN "ok" ELSE "notok", traceId)
    /\ anyCallOk' = (anyCallOk \/ r.success)
    /\ UNCHANGED <<content, config, outside, traceId, closed, kaInFlight, closeVars,
                   closedWarning, kaRejected, kaUnhandled, createInvoked, sendGaveId>>

\* if (response.status?.code !== STATUS_CODE_SUCCESS): the answer is a rejection
CreateRejectedNever(r) == FALSE

CreateRejected(r) == ~r.success

\* this.traceId = response.traceId || null
StoredTraceIdDropped(r) == NULL

StoredTraceId(r) == IF Truthy(r.traceId) THEN r.traceId ELSE NULL

\* the create path after await retryWithBackoff(_sendTrace): status check, id, timer
createSent(i, r) ==
    /\ i \in 1..Len(creates)
    /\ creates[i].pc = "calling"
    /\ creates[i].path = "send"
    /\ r \in CreateResponses /\ r.kind = "resp"
    /\ creates' = Remove(creates, i)
    /\ IF CreateRejected(r)
         THEN /\ lastCreate' = Resolved(creates[i], "notok", UNDEFINED)
              /\ UNCHANGED <<traceId, keepAliveTimer, intervals, anyCallOk, sendGaveId>>
         ELSE /\ traceId' = StoredTraceId(r)
              /\ keepAliveTimer' = startKeepAlive(keepAliveTimer, traceId', closed)
              /\ intervals' = setInterval(intervals, keepAliveTimer, traceId', closed)
              /\ lastCreate' = Resolved(creates[i], "ok", r.traceId)
              /\ anyCallOk' = TRUE
              /\ sendGaveId' = (sendGaveId \/ Truthy(r.traceId))
    /\ UNCHANGED <<content, config, outside, closed, kaInFlight, closeVars, closedWarning,
                   kaRejected, kaUnhandled, createInvoked>>

\* ------------------------------------------------------------- close()
\* if (this.closed) return
AlreadyClosedIgnored == FALSE

AlreadyClosed == closed

\* this.closed = true
ClosedFlagNotSet == closed

ClosedFlagSet == TRUE

\* const request: CloseTraceRequest = { traceId: this.traceId, text: reason }
CloseTraceRequestWithoutText(id, reason) == <<id, UNDEFINED>>

CloseTraceRequest(id, reason) == <<id, reason>>

\* catch (error) { console.error(...) }: close() resolves all the same
CloseCaughtRethrown == REJECTED

CloseCaught == "done"

\* close(reason) up to its await
closeFlushingContent(reason) ==
    /\ ~closed
    /\ closed' = TRUE
    /\ keepAliveTimer' = FALSE
    /\ intervals' = clearInterval(intervals, keepAliveTimer)
    /\ closePc' = "done"
    /\ creates' = Append(creates,
           [pc |-> "calling", path |-> "update", attempt |-> 0, sleeps |-> <<>>,
            lastError |-> <<>>, reqId |-> traceId, data |-> buildTraceData,
            sent |-> <<Encoded(buildTraceData, tags)>>])
    /\ UNCHANGED <<content, config, outside, traceId, kaInFlight, closedWarning, kaRejected,
                   kaUnhandled, createVars, closeRepeated, closeTraceCalls, closeReq>>

close(reason) ==
    IF AlreadyClosed
      THEN /\ closeRepeated' = TRUE
           /\ UNCHANGED <<content, config, outside, traceId, closed, keepAliveTimer, intervals, closePc,
                          closeTraceCalls, closeReq, creates, kaInFlight,
                          closedWarning, kaRejected, kaUnhandled, createVars>>
      ELSE /\ closed' = ClosedFlagSet
           /\ keepAliveTimer' = stopKeepAlive(keepAliveTimer)
           /\ intervals' = clearInterval(intervals, keepAliveTimer)
           /\ IF Truthy(traceId)
                THEN /\ closePc' = "calling"
                     /\ closeTraceCalls' = closeTraceCalls + 1
                     /\ closeReq' = CloseTraceRequest(traceId, reason)
                ELSE /\ closePc' = "done"
                     /\ UNCHANGED <<closeTraceCalls, closeReq>>
           /\ UNCHANGED <<content, config, outside, traceId, creates, kaInFlight, closedWarning,
                          kaRejected, kaUnhandled, createVars, closeRepeated>>

\* close() from its await on: the response or the caught error, both only logged
closeSettle(r) ==
    /\ closePc = "calling"
    /\ closePc' = IF r = "throw" THEN CloseCaught ELSE "done"
    /\ UNCHANGED <<content, config, outside, traceId, closed, keepAliveTimer, intervals, creates,
                   kaInFlight, closeRepeated, closeTraceCalls, closeReq, closedWarning,
                   kaRejected, kaUnhandled, createVars>>

\* ------------------------------------------------------- a second trace
traceVars == <<content, config, traceId, closed, keepAliveTimer, intervals, creates, createVars,
               kaInFlight, closeVars, closedWarning, kaRejected, kaUnhandled, traceIdRead>>

\* what the gateway may answer to the second trace's _sendTrace / _updateTrace
PeerResponses ==
    [kind : {"throw"}, success : {FALSE}, traceId : {EMPTY}]
    \cup [kind : {"resp"}, success : {FALSE}, traceId : {EMPTY}]
    \cup [kind : {"resp"}, success : {TRUE}, traceId : PeerServerIds]

\* addTag on the second trace, as if both traces pushed to one tags array
peerAddTagShared(tag) ==
    /\ ~peer.closed
    /\ Len(peer.tags) < contentCap /\ Len(tags) < contentCap
    /\ peer' = [peer EXCEPT !.tags = Append(@, tag)]
    /\ tags' = Append(tags, tag)
    /\ UNCHANGED <<attributes, events, txHashHints, config, traceId, closed, keepAliveTimer, intervals,
                   creates, createVars, kaInFlight, closeVars, closedWarning, kaRejected, kaUnhandled,
                   traceIdRead, transportVars>>

\* addTag on the second trace
peerAddTag(tag) ==
    /\ ~peer.closed
    /\ Len(peer.tags) < contentCap
    /\ peer' = [peer EXCEPT !.tags = Append(@, tag)]
    /\ UNCHANGED <<traceVars, transportVars>>

\* create() on the second trace, awaited, up to its await
peerCreate ==
    /\ peer.pc # "calling"
    /\ peer' = IF peer.closed
                 THEN [peer EXCEPT !.pc = "resolved", !.path = "none", !.result = UNDEFINED]
                 ELSE [peer EXCEPT !.pc = "calling", !.path = CreatePath(peer.traceId),
                                   !.result = PENDING]
    /\ UNCHANGED <<traceVars, transportVars>>

\* create() on the second trace from its await on
peerCreateSettle(r) ==
    /\ peer.pc = "calling"
    /\ r \in PeerResponses
    /\ peer' =
         IF r.kind = "throw"
           THEN [peer EXCEPT !.pc = "resolved", !.result = CreateCaught]
         ELSE IF peer.path = "update"
           THEN [peer EXCEPT !.pc = "resolved", !.result = peer.traceId,
                    !.keepAliveTimer = startKeepAlive(@, peer.traceId, peer.closed)]
         ELSE IF CreateRejected(r)
           THEN [peer EXCEPT !.pc = "resolved", !.result = UNDEFINED]
         ELSE [peer EXCEPT !.pc = "resolved", !.result = r.traceId,
                  !.traceId = StoredTraceId(r),
                  !.keepAliveTimer = startKeepAlive(@, StoredTraceId(r), peer.closed)]
    /\ UNCHANGED <<traceVars, transportVars>>

\* close() on the second trace
peerClose ==
    /\ ~peer.closed
    /\ peer' = [peer EXCEPT !.closed = TRUE, !.keepAliveTimer = stopKeepAlive(@)]
    /\ UNCHANGED <<traceVars, transportVars>>

\* ------------------------------------------------------------ transport
\* metadata || new grpc.Metadata(), then add('x-ingest-api-key', apiKey) if (this.apiKey)
UnaryMetadata(own) ==
    IF Truthy(apiKey) THEN Append(IF own THEN callerMetadata ELSE <<>>, apiKey)
                      ELSE IF own THEN callerMetadata ELSE <<>>

\* this.client, created once by the constructor
ReusedClient(n) == n

\* new grpc.Client(this.url, credentials) inside the call
ClientPerCall(n) == n + 1

\* the client a call goes through, by the class of the instance
ClientOfCall(n) == IF perCallClient THEN ClientPerCall(n) ELSE ReusedClient(n)

\* the callback of makeUnaryRequest: reject(err) / resolve(bytes) / reject(Error)
UnaryOutcomeEmptyResolves(err, value) ==
    IF err # NULL THEN [kind |-> "rejected", error |-> err, bytes |-> <<>>]
    ELSE [kind |-> "resolved", error |-> NULL, bytes |-> value.bytes]

UnaryOutcome(err, value) ==
    IF err # NULL THEN [kind |-> "rejected", error |-> err, bytes |-> <<>>]
    ELSE IF value.present THEN [kind |-> "resolved", error |-> NULL, bytes |-> value.bytes]
    ELSE [kind |-> "rejected", error |-> NoResponseReceived, bytes |-> <<>>]

\* request(service, method, data, metadata?): the promise executor runs at once
\* and hands the call to the channel
request(service, method, data, own) ==
    /\ Len(unaryCalls) < MaxUnaryCalls
    /\ callerMetadata' = IF own THEN UnaryMetadata(own) ELSE callerMetadata
    /\ unaryCalls' = Append(unaryCalls,
            [path |-> <<service, method>>, data |-> data, metadata |-> UnaryMetadata(own),
             requests |-> 1, settled |-> 0, err |-> NULL, value |-> NoValue,
             outcome |-> [kind |-> PENDING, error |-> NULL, bytes |-> <<>>]])
    /\ connections' = ClientOfCall(connections)
    /\ UNCHANGED <<apiKey, perCallClient, streamVars, thrown, traceVars, peer>>

\* the channel invokes the callback of call i; resolve and reject of a promise
\* that has settled do nothing
unaryCallback(i, err, value) ==
    /\ i \in 1..Len(unaryCalls)
    /\ unaryCalls' = IF unaryCalls[i].outcome.kind # PENDING
                       THEN unaryCalls
                       ELSE [unaryCalls EXCEPT ![i].settled = @ + 1, ![i].err = err,
                                               ![i].value = value,
                                               ![i].outcome = UnaryOutcome(err, value)]
    /\ UNCHANGED <<apiKey, callerMetadata, perCallClient, connections, streamVars,
                   thrown, traceVars, peer>>

\* clientStreamingRequest(): throws before anything else
clientStreamingRequestOpensCall ==
    /\ connections' = connections + 1
    /\ UNCHANGED <<apiKey, unaryVars, perCallClient, streamVars, thrown, traceVars, peer>>

clientStreamingRequest ==
    /\ thrown' = ClientStreamingNotImplemented
    /\ UNCHANGED <<apiKey, unaryVars, perCallClient, connections, streamVars,
                   traceVars, peer>>

\* bidirectionalStreamingRequest(): throws before anything else
bidirectionalStreamingRequest ==
    /\ thrown' = BidirectionalNotImplemented
    /\ UNCHANGED <<apiKey, unaryVars, perCallClient, connections, streamVars,
                   traceVars, peer>>

\* serverStreamingRequest(service, method, data): returns a cold Observable; its
\* body runs once per subscription
serverStreamingRequest(service, method, data) ==
    /\ observables < MaxObservables
    /\ observables' = observables + 1
    /\ UNCHANGED <<apiKey, unaryVars, perCallClient, connections, streams, thrown,
                   traceVars, peer>>

\* new grpc.Metadata(), then add('x-ingest-api-key', apiKey) if (this.apiKey)
StreamMetadata == IF Truthy(apiKey) THEN <<apiKey>> ELSE <<>>

\* the subscriber is open until complete(), error() or unsubscribe()
Open(st) == st.state = "open"

\* the Observable body: one makeServerStreamRequest and its three listeners
subscribe(o) ==
    /\ o \in 1..observables
    /\ Len(streams) < MaxStreams
    /\ streams' = Append(streams,
            [metadata |-> StreamMetadata, calls |-> 1,
             state |-> "open", error |-> NULL, arrived |-> <<>>, delivered |-> <<>>,
             cancelled |-> FALSE])
    /\ connections' = ClientOfCall(connections)
    /\ UNCHANGED <<apiKey, unaryVars, perCallClient, observables, thrown, traceVars, peer>>

ChunksArrived == IF streams = <<>> THEN 0
                 ELSE LET RECURSIVE Sum(_)
                          Sum(k) == IF k = 0 THEN 0 ELSE Len(streams[k].arrived) + Sum(k - 1)
                      IN Sum(Len(streams))

\* subscriber.next(new Uint8Array(response)): dropped by a subscriber that is not open
NextDeliveredAlways(st, chunk) == Append(st.delivered, chunk)

NextDelivered(st, chunk) == IF Open(st) THEN Append(st.delivered, chunk) ELSE st.delivered

\* call.on("data")
streamData(i, chunk) ==
    /\ i \in 1..Len(streams)
    /\ ChunksArrived < MaxChunks
    /\ streams' = [streams EXCEPT ![i].arrived = Append(@, chunk),
                                  ![i].delivered = NextDelivered(streams[i], chunk)]
    /\ UNCHANGED <<apiKey, unaryVars, perCallClient, connections, observables, thrown,
                   traceVars, peer>>

\* the teardown of the subscription: call.cancel()
Teardown(st) == [st EXCEPT !.cancelled = TRUE]

\* call.on("end"): subscriber.complete(), which also runs the teardown
streamEnd(i) ==
    /\ i \in 1..Len(streams)
    /\ streams' = IF Open(streams[i])
                    THEN [streams EXCEPT ![i] = Teardown([@ EXCEPT !.state = "completed"])]
                    ELSE streams
    /\ UNCHANGED <<apiKey, unaryVars, perCallClient, connections, observables, thrown,
                   traceVars, peer>>

\* call.on("error"): subscriber.error(err), which also runs the teardown
streamError(i, err) ==
    /\ i \in 1..Len(streams)
    /\ streams' = IF Open(streams[i])
                    THEN [streams EXCEPT
                            ![i] = Teardown([@ EXCEPT !.state = "errored", !.error = err])]
                    ELSE streams
    /\ UNCHANGED <<apiKey, unaryVars, perCallClient, connections, observables, thrown,
                   traceVars, peer>>

\* the consumer unsubscribes: the teardown runs unless it has run
unsubscribe(i) ==
    /\ i \in 1..Len(streams)
    /\ streams' = IF Open(streams[i])
                    THEN [streams EXCEPT ![i] = Teardown([@ EXCEPT !.state = "unsubscribed"])]
                    ELSE streams
    /\ UNCHANGED <<apiKey, unaryVars, perCallClient, connections, observables, thrown,
                   traceVars, peer>>

\* ----------------------------------------------------------------- Next
Builder ==
    \/ \E k \in AttrKeys, v \in AttrInputs : addAttribute(k, v)
    \/ \E k \in AttrKeys, v \in AttrInputs : addAttributes([x \in {k} |-> v])
    \/ \E t \in TagInputs : addTag(t)
    \/ \E t \in TagInputs : addTags(<<t>>)
    \/ \E e \in EventNames, d \in {UNDEFINED} : addEvent(e, d)
    \/ \E h \in TxHashes, c \in Chains, o \in TxHintOptionInputs : addTxHint(h, c, o)

Lifecycle ==
    \/ \E id \in ResumeIds : setTraceId(id)
    \/ \E i \in 1..MaxCreateCalls : createRetry(i)
    \/ \E i \in 1..MaxCreateCalls : createWake(i)
    \/ \E i \in 1..MaxCreateCalls : createExhausted(i)
    \/ \E i \in 1..MaxCreateCalls, r \in UpdateResponses : createResumed(i, r)
    \/ \E i \in 1..MaxCreateCalls, r \in CreateResponses : createSent(i, r)
    \/ sendKeepAlive
    \/ \E r \in AcceptResponses : keepAliveSettle(r)
    \/ \E r \in Reasons : close(r)
    \/ \E r \in AcceptResponses : closeSettle(r)

\* any caller: create() and close() may overlap each other and themselves
Next == create \/ Lifecycle

Spec == Init /\ [][Next]_vars

\* create() and close() under the scheduling of the event loop: the remote call of
\* a pending create() settles, a sleep of the retry loop ends, the closeTrace call
\* settles; the trace has its id from the constructor or from the gateway, and
\* the keep-alive pings, which neither create() nor close() waits for, are left out
CallSettles ==
    \E i \in 1..MaxCreateCalls :
        \/ createRetry(i)
        \/ createExhausted(i)
        \/ \E r \in UpdateResponses : createResumed(i, r)
        \/ \E r \in CreateResponses : createSent(i, r)

SleepEnds == \E i \in 1..MaxCreateCalls : createWake(i)

CloseCallSettles == \E r \in AcceptResponses : closeSettle(r)

NextLive ==
    \/ create
    \/ CallSettles
    \/ SleepEnds
    \/ \E r \in Reasons : close(r)
    \/ CloseCallSettles

SpecLive ==
    /\ Init /\ [][NextLive]_vars
    /\ WF_vars(CallSettles) /\ WF_vars(SleepEnds) /\ WF_vars(CloseCallSettles)

\* a caller that awaits each create() before it calls create() again
NextSeq == (creates = <<>> /\ create) \/ Lifecycle

SpecSeq == Init /\ [][NextSeq]_vars

\* the retry loop alone: one create() under every retry configuration
InitRetry == InitWith(0..RetryBound, BackoffValues, {NULL} \cup ResumeIds)

NextRetry ==
    \/ createInvoked = 0 /\ create
    \/ \E id \in ResumeIds : setTraceId(id)
    \/ \E i \in 1..MaxCreateCalls : createRetry(i)
    \/ \E i \in 1..MaxCreateCalls : createWake(i)
    \/ \E i \in 1..MaxCreateCalls : createExhausted(i)
    \/ \E i \in 1..MaxCreateCalls, r \in UpdateResponses : createResumed(i, r)
    \/ \E i \in 1..MaxCreateCalls, r \in CreateResponses : createSent(i, r)

SpecRetry == InitRetry /\ [][NextRetry]_vars

\* the builder: every mutator, between the awaited create() calls and at any
\* time once the trace is closed, and close(), of a trace built without an id
\* and without retries, the keep-alive interval being longer than the run
InitBuilder == InitWith({0}, LifecycleBackoffs, {NULL})

NextBuilder ==
    \/ (creates = <<>> \/ closed) /\ Builder
    \/ creates = <<>> /\ create
    \/ \E i \in 1..MaxCreateCalls : createExhausted(i)
    \/ \E i \in 1..MaxCreateCalls, r \in UpdateResponses : createResumed(i, r)
    \/ \E i \in 1..MaxCreateCalls, r \in CreateResponses : createSent(i, r)
    \/ \E r \in Reasons : close(r)
    \/ \E r \in AcceptResponses : closeSettle(r)

SpecBuilder == InitBuilder /\ [][NextBuilder]_vars

\* every kind of operation around the closed flag: awaited create() calls, their
\* completion before or after close(), setTraceId, the keep-alive ticks and
\* responses, close(), addTag at any time and every mutator once the trace is closed
NextClosed ==
    \/ creates = <<>> /\ create
    \/ \E i \in 1..MaxCreateCalls : createExhausted(i)
    \/ \E i \in 1..MaxCreateCalls, r \in UpdateResponses : createResumed(i, r)
    \/ \E i \in 1..MaxCreateCalls, r \in CreateResponses : createSent(i, r)
    \/ \E id \in ResumeIds : setTraceId(id)
    \/ sendKeepAlive
    \/ \E r \in AcceptResponses : keepAliveSettle(r)
    \/ \E r \in Reasons : close(r)
    \/ \E r \in AcceptResponses : closeSettle(r)
    \/ \E t \in TagInputs : addTag(t)
    \/ closed /\ Builder

SpecClosed == InitBuilder /\ [][NextClosed]_vars

\* a caller that awaits each create() and reads the trace id whenever it likes
NextRead == NextSeq \/ getTraceId

SpecRead == Init /\ [][NextRead]_vars

\* two traces of one client, each with awaited create() calls and no retries
InitPeers == InitWith({0}, LifecycleBackoffs, {NULL})

NextPeers ==
    \/ \E t \in TagInputs : addTag(t)
    \/ creates = <<>> /\ create
    \/ \E i \in 1..MaxCreateCalls : createExhausted(i)
    \/ \E i \in 1..MaxCreateCalls, r \in UpdateResponses : createResumed(i, r)
    \/ \E i \in 1..MaxCreateCalls, r \in CreateResponses : createSent(i, r)
    \/ sendKeepAlive
    \/ \E r \in AcceptResponses : keepAliveSettle(r)
    \/ \E r \in Reasons : close(r)
    \/ \E r \in AcceptResponses : closeSettle(r)
    \/ \E t \in TagInputs : peerAddTag(t)
    \/ peerCreate
    \/ \E r \in PeerResponses : peerCreateSettle(r)
    \/ peerClose

SpecPeers == InitPeers /\ [][NextPeers]_vars

\* one NodeGrpcRpc and the unary calls made through it
InitTransport ==
    /\ InitTrace({0}, LifecycleBackoffs, {NULL})
    /\ apiKey \in ApiKeys
    /\ perCallClient = FALSE
    /\ NoCalls

NextTransport ==
    \/ \E sv \in Services, m \in Methods, d \in RequestBytes, own \in BOOLEAN :
          request(sv, m, d, own)
    \/ \E i \in 1..MaxUnaryCalls, err \in ChannelErrors, v \in ChannelValues :
          unaryCallback(i, err, v)

SpecTransport == InitTransport /\ [][NextTransport]_vars

\* one NodeGrpcRpc of either class of the file and the calls issued through it,
\* all of them still in flight
InitCalls ==
    /\ InitTrace({0}, LifecycleBackoffs, {NULL})
    /\ apiKey \in ApiKeys
    /\ perCallClient \in BOOLEAN
    /\ NoCalls

NextCalls ==
    \/ \E sv \in Services, m \in Methods, d \in RequestBytes, own \in BOOLEAN :
          request(sv, m, d, own)
    \/ \E sv \in Services, m \in Methods, d \in RequestBytes :
          serverStreamingRequest(sv, m, d)
    \/ \E o \in 1..MaxObservables : subscribe(o)
    \/ clientStreamingRequest
    \/ bidirectionalStreamingRequest

SpecCalls == InitCalls /\ [][NextCalls]_vars

\* one NodeGrpcRpc and the server-streaming calls made through it
InitStream ==
    /\ InitTrace({0}, LifecycleBackoffs, {NULL})
    /\ apiKey = "key"
    /\ perCallClient = FALSE
    /\ NoCalls

NextStream ==
    \/ \E sv \in Services, m \in Methods, d \in RequestBytes :
          serverStreamingRequest(sv, m, d)
    \/ \E o \in 1..MaxObservables : subscribe(o)
    \/ \E i \in 1..MaxStreams, chunk \in Chunks : streamData(i, chunk)
    \/ \E i \in 1..MaxStreams : streamEnd(i)
    \/ \E i \in 1..MaxStreams, err \in StreamErrors : streamError(i, err)
    \/ \E i \in 1..MaxStreams : unsubscribe(i)

SpecStream == InitStream /\ [][NextStream]_vars

\* the order of the trace content: a caller that adds up to MaxOrdered
\* distinguishable tags, events and tx hints and writes an attribute key with
\* different values, then awaits create(), of a trace without id and retries
OrderedAttrInputs ==
    AttrInputs \cup {[isObject |-> FALSE, string |-> "v", json |-> "\"v\""]}
OrderedTags == {"a", "b"}
OrderedEvents == {"e", "f"}
OrderedTxHashes == {"0xh", "0xi"}

InitOrder == InitTraceWith({0}, LifecycleBackoffs, {NULL}, MaxOrdered) /\ TransportIdle

NextOrder ==
    \/ \E k \in AttrKeys, v \in OrderedAttrInputs : creates = <<>> /\ addAttribute(k, v)
    \/ \E t \in OrderedTags : creates = <<>> /\ addTag(t)
    \/ \E t, u \in OrderedTags : creates = <<>> /\ addTags(<<t, u>>)
    \/ \E e \in OrderedEvents : creates = <<>> /\ addEvent(e, UNDEFINED)
    \/ \E h \in OrderedTxHashes, c \in Chains :
          creates = <<>> /\ addTxHint(h, c, [kind |-> "none", input |-> UNDEFINED,
                                             details |-> UNDEFINED])
    \/ createInvoked = 0 /\ create
    \/ \E i \in 1..MaxCreateCalls : createExhausted(i)
    \/ \E i \in 1..MaxCreateCalls, r \in CreateResponses : createSent(i, r)

SpecOrder == InitOrder /\ [][NextOrder]_vars

\* the transaction hints: addTxHint with every kind of options and addTx, on a
\* trace without id and retries, each followed by an awaited create()
NextTx ==
    \/ \E h \in TxHashes, c \in Chains, o \in TxHintOptionInputs :
          creates = <<>> /\ addTxHint(h, c, o)
    \/ \E tx \in TxInputs, c \in {UNDEFINED} \cup Chains : creates = <<>> /\ addTx(tx, c)
    \/ creates = <<>> /\ create
    \/ \E i \in 1..MaxCreateCalls : createExhausted(i)
    \/ \E i \in 1..MaxCreateCalls, r \in CreateResponses : createSent(i, r)

SpecTx == InitOrder /\ [][NextTx]_vars

\* the payload of the attempts: one create() with retries, of a trace made with
\* or without id, while the caller goes on adding content until it calls close()
InitPayload ==
    /\ InitTraceWith(1..MaxRetriesBound, LifecycleBackoffs, {NULL} \cup ResumeIds, MaxOrdered)
    /\ TransportIdle

NextPayload ==
    \/ \E k \in AttrKeys, v \in AttrInputs : ~closed /\ addAttribute(k, v)
    \/ \E t \in TagInputs : ~closed /\ addTag(t)
    \/ \E e \in EventNames : ~closed /\ addEvent(e, UNDEFINED)
    \/ \E h \in TxHashes, c \in Chains :
          ~closed /\ addTxHint(h, c, [kind |-> "none", input |-> UNDEFINED,
                                      details |-> UNDEFINED])
    \/ createInvoked = 0 /\ create
    \/ \E i \in 1..MaxCreateCalls : createRetry(i)
    \/ \E i \in 1..MaxCreateCalls : createWake(i)
    \/ \E i \in 1..MaxCreateCalls : createExhausted(i)
    \/ \E i \in 1..MaxCreateCalls, r \in UpdateResponses : createResumed(i, r)
    \/ \E i \in 1..MaxCreateCalls, r \in CreateResponses : createSent(i, r)
    \/ \E r \in Reasons : close(r)
    \/ \E r \in AcceptResponses : closeSettle(r)

SpecPayload == InitPayload /\ [][NextPayload]_vars

\* ================================================================ claims
PowersOfTwoBackoff(n) == [k \in 1..n |-> retryBackoff * 2^(k - 1)]

C2_IdempotentClose ==
    [][ /\ closeTraceCalls' <= 1
        /\ (\E r \in Reasons : close(r)) =>
              /\ closed' /\ ~keepAliveTimer' /\ traceId' = traceId
              /\ closed => UNCHANGED <<closed, keepAliveTimer, traceId, closePc,
                                       closeTraceCalls, closeReq, content, creates>>
      ]_vars

C2_Witness ==
    /\ closeRepeated
    /\ closePc = "calling"
    /\ closeTraceCalls = 1
    /\ ~keepAliveTimer

\* C3: once close() has resolved, a builder call or a create() changes neither the
\* content nor traceId, closed or the timer, issues no remote call, and create()
\* resolves to undefined.
C3_PostCloseSilence ==
    [][ (closePc = "done" /\ (Builder \/ create)) =>
            /\ UNCHANGED <<content, traceId, closed, keepAliveTimer, creates,
                           kaInFlight, closeTraceCalls, anyCallOk>>
            /\ create => lastCreate'.result = UNDEFINED /\ lastCreate'.path = "none"
      ]_vars

C3_Witness ==
    /\ closed
    /\ closeTraceCalls = 0
    /\ closedWarning = "addTxHint"
    /\ lastCreate.path = "none"
    /\ lastCreate.result = UNDEFINED
    /\ tags # <<>>

\* C4: once the _closeTrace call has been issued no _keepAlive call is started.
C4_NoKeepAliveAfterCloseCall ==
    [][closeTraceCalls > 0 => kaInFlight' <= kaInFlight]_vars

C4_Witness ==
    /\ closePc = "done"
    /\ closeTraceCalls = 1
    /\ kaInFlight > 0

\* C5 as stated: no _keepAlive call is in flight when the _closeTrace call is
\* issued or at any time afterwards.
C5_NoKeepAliveInFlightAtClose == closeTraceCalls > 0 => kaInFlight = 0

\* C5 as amended: from the moment close() has set the closed flag the timer is
\* stopped and no _keepAlive call is issued, so the calls in flight only drain; a
\* call issued by a tick before close() may still be in flight while and after
\* _closeTrace is issued.
C5_KeepAliveOnlyDrainsAfterClose ==
    [][closed => ~keepAliveTimer /\ ~keepAliveTimer' /\ kaInFlight' <= kaInFlight]_vars

C5_Witness ==
    /\ closePc = "calling"
    /\ kaInFlight > 0

\* a tick of the interval can fire, and a tick that issues a _keepAlive call
TickDue == keepAliveTimer /\ kaInFlight < MaxKeepAliveInFlight
TickPings == sendKeepAlive /\ kaInFlight' = kaInFlight + 1

\* C6 as stated: after a create() succeeded every tick issues a _keepAlive call
\* until close() or a not-accepted response, and after either of these no
\* _keepAlive call is ever issued again.
C6_KeepAliveCadence ==
    [][ /\ (TickDue /\ anyCallOk /\ ~closed /\ ~kaRejected) => ENABLED TickPings
        /\ (closed \/ kaRejected) => kaInFlight' <= kaInFlight
      ]_vars

\* C6 as amended: a tick of the running timer issues one _keepAlive call whenever
\* the trace has an id and is not closed, and calls are issued by such ticks only;
\* a not-accepted response stops the timer; after close() no call is ever issued;
\* a stopped timer is started again only by a create() that resolves to a trace id
\* on a trace that is not closed (so after a not-accepted response a later
\* create() resumes the pings).
C6_KeepAliveCadenceAmended ==
    [][ /\ (TickDue /\ Truthy(traceId) /\ ~closed) => ENABLED TickPings
        /\ kaInFlight' > kaInFlight => keepAliveTimer /\ ~closed /\ sendKeepAlive
        /\ keepAliveSettle("notAccepted") => ~keepAliveTimer'
        /\ closed => kaInFlight' <= kaInFlight
        /\ (~keepAliveTimer /\ keepAliveTimer') =>
              /\ ~closed
              /\ Len(creates') < Len(creates)
              /\ Truthy(lastCreate'.result)
      ]_vars

C6_Witness ==
    /\ kaRejected
    /\ keepAliveTimer
    /\ kaInFlight > 0
    /\ lastCreate.path = "update"

\* C7: a create() whose every attempt throws sleeps exactly maxRetries times, for
\* retryBackoff * 2^(k-1) before attempt k+1, never after the last attempt, and
\* then resolves to undefined; while it runs its sleeps so far are that sequence.
C7_BackoffGrowth ==
    /\ \A i \in 1..Len(creates) :
          /\ creates[i].sleeps = PowersOfTwoBackoff(Len(creates[i].sleeps))
          /\ Len(creates[i].sleeps) =
                IF creates[i].pc = "sleeping" THEN creates[i].attempt + 1
                                              ELSE creates[i].attempt
          /\ creates[i].attempt <= maxRetries
    /\ lastCreate.outcome = "threw" =>
          /\ lastCreate.attempt = maxRetries
          /\ lastCreate.sleeps = PowersOfTwoBackoff(maxRetries)
          /\ lastCreate.result = UNDEFINED

C7_Witness ==
    /\ lastCreate.outcome = "threw"
    /\ maxRetries = RetryBound
    /\ retryBackoff > 1
    /\ Len(lastCreate.sleeps) = RetryBound

C9_FailedCreateCommitsNothing ==
    [][ \A i \in 1..MaxCreateCalls :
          ( \/ createExhausted(i)
            \/ \E r \in CreateResponses : createSent(i, r) /\ ~r.success
            \/ \E r \in UpdateResponses : createResumed(i, r) /\ ~r.success )
          => UNCHANGED <<traceId, closed, keepAliveTimer, content>>
      ]_vars

\* C10: create() never rejects: when the last attempt has thrown too, with
\* attempt index maxRetries, it resolves to undefined.
C10_CreateNeverRejects ==
    /\ lastCreate.result # REJECTED
    /\ lastCreate.outcome = "threw" =>
          lastCreate.result = UNDEFINED /\ lastCreate.attempt = maxRetries

C10_Witness ==
    /\ lastCreate.outcome = "threw"
    /\ lastCreate.result = UNDEFINED
    /\ maxRetries > 0
    /\ Len(lastCreate.sleeps) = maxRetries

\* C11: a _sendTrace answer with a non-success status ends the create() at once:
\* no further attempt and no sleep follow it (one _sendTrace call when no attempt
\* threw before), create() resolves to undefined, traceId and the timer stay as
\* they are.
C11_RejectionNotRetried ==
    [][ \A i \in 1..MaxCreateCalls, r \in CreateResponses :
          (createSent(i, r) /\ ~r.success) =>
              /\ Len(creates') = Len(creates) - 1
              /\ lastCreate'.attempt = creates[i].attempt
              /\ lastCreate'.sleeps = creates[i].sleeps
              /\ lastCreate'.result = UNDEFINED
              /\ UNCHANGED <<traceId, keepAliveTimer, closed>>
      ]_vars

C11_Witness ==
    /\ lastCreate.path = "send"
    /\ lastCreate.outcome = "notok"
    /\ lastCreate.attempt = 0
    /\ lastCreate.result = UNDEFINED
    /\ traceId = NULL
    /\ ~keepAliveTimer

C13_ResumeRejectionIsFailure ==
    [][ \A i \in 1..MaxCreateCalls, r \in UpdateResponses :
          (createResumed(i, r) /\ ~r.success) =>
              /\ lastCreate'.result = UNDEFINED
              /\ keepAliveTimer' = keepAliveTimer
      ]_vars

\* C14: however the _closeTrace call settles (accepted, not accepted, thrown),
\* close() resolves and never rejects, the trace stays closed, that call was the
\* only one issued and none follows it.
C14_CloseNeverRejects ==
    [][ /\ \A r \in AcceptResponses :
              closeSettle(r) =>
                  /\ closePc' = "done"
                  /\ closed /\ closed'
                  /\ closeTraceCalls = 1 /\ closeTraceCalls' = 1
        /\ closePc' # REJECTED
        /\ closePc = "done" => closePc' = "done" /\ closeTraceCalls' = closeTraceCalls
      ]_vars

C14_Witness ==
    /\ closePc = "done"
    /\ closed
    /\ closeTraceCalls = 1
    /\ closeReq[1] = traceId

\* C15: the close() that finds the trace open leaves no timer behind; if the trace
\* has an id it issues one _closeTrace call carrying that id and the reason given,
\* and if it has none it issues no call and is over; it issues no other call, and
\* the timer is off in every state in which a _closeTrace call has been issued.
C15_CloseOrder ==
    [][ /\ \A reason \in Reasons :
              (close(reason) /\ ~closed) =>
                  /\ ~keepAliveTimer'
                  /\ UNCHANGED <<creates, kaInFlight>>
                  /\ IF Truthy(traceId)
                       THEN /\ closeTraceCalls' = closeTraceCalls + 1
                            /\ closeReq' = <<traceId, reason>>
                            /\ closePc' = "calling"
                       ELSE /\ closeTraceCalls' = closeTraceCalls
                            /\ closePc' = "done"
        /\ closeTraceCalls' > 0 => ~keepAliveTimer' /\ closeTraceCalls' = 1
      ]_vars

C15_Witness ==
    /\ closePc = "calling"
    /\ closeReq = <<"t1", "done">>
    /\ ~keepAliveTimer
    /\ kaRejected = FALSE
    /\ kaInFlight > 0

\* C16: once traceId holds an id no step changes it: neither setTraceId nor a
\* later create() replaces an id that is set.
C16_TraceIdNeverReassigned ==
    [][Truthy(traceId) => traceId' = traceId]_vars

C18_MutatorsTouchContentOnly ==
    [][ (~closed /\ Builder) =>
            /\ UNCHANGED <<traceId, closed, keepAliveTimer, creates, createVars,
                           kaInFlight, closeVars, closedWarning>>
            /\ content' # content
      ]_vars

C18_Witness ==
    /\ traceId \in ServerIds
    /\ keepAliveTimer
    /\ ~closed
    /\ creates # <<>>
    /\ attributes["k"] = "{}"
    /\ Len(tags) = MaxContent
    /\ Len(events) = MaxContent
    /\ Len(txHashHints) = MaxContent

\* C19: a step of one trace leaves the other trace's fields and pending create()
\* as they are, whatever the interleaving, and a create() that is answered with
\* success resolves to the id of its own answer, never to an id handed to the
\* other trace.
C19_TracesIndependent ==
    [][ /\ traceVars' # traceVars => peer' = peer
        /\ peer' # peer => traceVars' = traceVars
        /\ traceId' \notin PeerServerIds /\ peer'.traceId \notin ServerIds
        /\ \A i \in 1..MaxCreateCalls, r \in CreateResponses :
              (createSent(i, r) /\ r.success) => lastCreate'.result = r.traceId
        /\ \A r \in PeerResponses :
              (peerCreateSettle(r) /\ r.success /\ peer.path = "send") =>
                  peer'.result = r.traceId
      ]_vars

C19_Witness ==
    /\ traceId \in ServerIds
    /\ lastCreate.result = traceId
    /\ peer.traceId \in PeerServerIds
    /\ peer.result = peer.traceId
    /\ closed /\ ~keepAliveTimer
    /\ ~peer.closed /\ peer.keepAliveTimer
    /\ tags = <<>>
    /\ peer.tags # <<>>

\* C20: every unary call hands one request to the channel and none later, settles
\* at most once and never changes once settled; it is rejected with the channel's
\* error when the callback carries one, resolved with the bytes when it carries a
\* value and no error, and rejected with the empty-response error when it carries
\* neither.
C20_UnaryCallSettlesOnce ==
    [][ \A i \in 1..Len(unaryCalls) :
          /\ unaryCalls[i].requests = 1 /\ unaryCalls'[i].requests = 1
          /\ unaryCalls[i].settled = 1 => unaryCalls'[i] = unaryCalls[i]
          /\ unaryCalls'[i].settled = 0 => unaryCalls'[i].outcome.kind = PENDING
          /\ unaryCalls'[i].settled = 1 =>
                LET c == unaryCalls'[i] IN
                  /\ c.err # NULL =>
                        c.outcome.kind = "rejected" /\ c.outcome.error = c.err
                  /\ (c.err = NULL /\ c.value # NoValue) =>
                        c.outcome.kind = "resolved" /\ c.outcome.bytes = c.value.bytes
                  /\ (c.err = NULL /\ c.value = NoValue) =>
                        c.outcome.kind = "rejected"
                        /\ c.outcome.error = NoResponseReceived
      ]_vars

C20_Witness ==
    /\ Len(unaryCalls) = MaxUnaryCalls
    /\ unaryCalls[1].outcome.kind = "rejected"
    /\ unaryCalls[1].outcome.error = NoResponseReceived
    /\ unaryCalls[2].outcome.kind = "resolved"
    /\ unaryCalls[2].outcome.bytes = <<7>>

\* C21: a call of clientStreamingRequest or bidirectionalStreamingRequest throws its
\* not-implemented error at once, opens no call and no connection, and leaves the
\* key, the calls in flight, the observables and the subscriptions as they were.
C21_UnsupportedStreamingThrows ==
    [][ /\ clientStreamingRequest =>
              /\ thrown' = ClientStreamingNotImplemented
              /\ UNCHANGED <<apiKey, unaryVars, perCallClient, connections, streamVars>>
        /\ bidirectionalStreamingRequest =>
              /\ thrown' = BidirectionalNotImplemented
              /\ UNCHANGED <<apiKey, unaryVars, perCallClient, connections, streamVars>>
      ]_vars

C21_Witness ==
    /\ thrown = ClientStreamingNotImplemented
    /\ Len(unaryCalls) = 1
    /\ Len(streams) = 1
    /\ connections = 1

\* C22: an instance has created exactly one connection, at construction, whatever
\* unary and server-streaming calls have been issued through it since.
C22_OneConnection == connections = 1

\* C23: with an api key configured, every unary call and every server-streaming
\* call carries the key as exactly one header value, whether or not the caller
\* passed a metadata object of its own and however often it passed the same one;
\* without a key no call carries the header.
C23_ApiKeyOnce ==
    LET Header == IF Truthy(apiKey) THEN <<apiKey>> ELSE <<>>
    IN /\ \A i \in 1..Len(unaryCalls) : unaryCalls[i].metadata = Header
       /\ \A i \in 1..Len(streams) : streams[i].metadata = Header

\* C24: a subscription is handed the chunks of its call in arrival order, each one
\* while it is open; it is terminated by the end event and by the error event and
\* stays terminated; after termination or unsubscription no chunk is delivered;
\* unsubscribing cancels the call; and each subscription makes one call of its
\* own, starting empty and leaving the other subscriptions as they are.
C24_ServerStream ==
    [][ /\ \A i \in 1..Len(streams) :
              LET st == streams[i]
                  st2 == streams'[i]
              IN /\ st2.delivered = SubSeq(st2.arrived, 1, Len(st2.delivered))
                 /\ Open(st2) => st2.delivered = st2.arrived
                 /\ streamEnd(i) => ~Open(st2)
                 /\ \A err \in StreamErrors : streamError(i, err) => ~Open(st2)
                 /\ unsubscribe(i) => ~Open(st2) /\ st2.cancelled
                 /\ ~Open(st) => ~Open(st2) /\ st2.delivered = st.delivered
                 /\ st2.calls = 1
        /\ \A o \in 1..observables :
              subscribe(o) =>
                  /\ Len(streams') = Len(streams) + 1
                  /\ SubSeq(streams', 1, Len(streams)) = streams
                  /\ LET new == streams'[Len(streams')]
                     IN Open(new) /\ new.calls = 1 /\ ~new.cancelled
                        /\ new.arrived = <<>> /\ new.delivered = <<>>
      ]_vars

C24_Witness ==
    /\ observables = 1
    /\ Len(streams) = 2
    /\ streams[1].state = "unsubscribed" /\ streams[1].cancelled
    /\ streams[1].arrived = <<<<7>>, <<8>>>> /\ streams[1].delivered = <<<<7>>>>
    /\ Open(streams[2]) /\ streams[2].delivered = <<>>

\* C25: when every remote call settles and every sleep ends, a pending create()
\* resolves, having made no more than maxRetries + 1 attempts, and a close() that
\* awaits its closeTrace call resolves.
C25_CreateAndCloseResolve ==
    /\ [](/\ \A i \in 1..Len(creates) : creates[i].attempt + 1 <= maxRetries + 1
          /\ lastCreate.attempt + 1 <= maxRetries + 1)
    /\ (creates # <<>>) ~> (creates = <<>>)
    /\ (closePc = "calling") ~> (closePc = "done")

C25_Witness ==
    /\ creates = <<>>
    /\ createInvoked = MaxCreateCalls
    /\ lastCreate.outcome = "threw"
    /\ lastCreate.attempt = maxRetries /\ maxRetries = MaxRetriesBound
    /\ closePc = "done" /\ closeTraceCalls = 1

\* C26: in every reachable state the keep-alive timer exists exactly when the
\* trace has an id and is not closed.
C26_TimerIffIdAndOpen == keepAliveTimer <=> (Truthy(traceId) /\ ~closed)

\* C26, amended: the timer never exists while the trace is closed, and it comes
\* into existence only in a step that leaves the trace with an id and not closed.
C26_TimerOnlyStartedWithIdAndOpen ==
    /\ [](keepAliveTimer => ~closed)
    /\ [][(~keepAliveTimer /\ keepAliveTimer') => (Truthy(traceId') /\ ~closed')]_vars

C26_Witness ==
    /\ keepAliveTimer /\ Truthy(traceId) /\ ~closed
    /\ kaRejected
    /\ lastCreate.path = "update"

\* C27: the retry loop makes its attempts one after another, each new one only
\* after the previous one threw and its sleep ended; the first attempt that
\* returns ends the loop with that answer and no further attempt or sleep; there
\* are never more than maxRetries + 1 attempts, a single one and no sleep when
\* maxRetries = 0; when the last attempt throws, the loop throws the error of that
\* attempt; and the sleeps before attempt k + 1 are retryBackoff * 2^(k-1), so an
\* operation that fails twice and then succeeds is called three times with
\* sleeps of 100 and 200 for retryBackoff = 100.
C27_RetryExecutor ==
    /\ [](/\ \A i \in 1..Len(creates) : creates[i].attempt <= maxRetries
          /\ lastCreate.attempt <= maxRetries
          /\ lastCreate.outcome # "none" =>
                /\ lastCreate.sleeps = PowersOfTwoBackoff(lastCreate.attempt)
                /\ maxRetries = 0 => lastCreate.attempt = 0 /\ lastCreate.sleeps = <<>>
          /\ lastCreate.outcome = "threw" =>
                lastCreate.attempt = maxRetries /\ lastCreate.thrown = <<maxRetries>>
          /\ (lastCreate.outcome = "ok" /\ lastCreate.attempt = 2 /\ retryBackoff = 100) =>
                lastCreate.sleeps = <<100, 200>>)
    /\ [][ \A i \in 1..Len(creates) :
              /\ (Len(creates') = Len(creates) /\ creates'[i].attempt # creates[i].attempt) =>
                    /\ creates[i].pc = "sleeping" /\ creates'[i].pc = "calling"
                    /\ creates'[i].attempt = creates[i].attempt + 1
              /\ \A r \in CreateResponses \cup UpdateResponses :
                    (createSent(i, r) \/ createResumed(i, r)) =>
                        /\ creates' = Remove(creates, i)
                        /\ lastCreate'.attempt = creates[i].attempt
                        /\ lastCreate'.sleeps = creates[i].sleeps
                        /\ lastCreate'.outcome = IF r.success THEN "ok" ELSE "notok"
                        /\ lastCreate'.thrown = <<>>
         ]_vars

C27_Witness ==
    /\ maxRetries = 2 /\ retryBackoff = 100
    /\ lastCreate.outcome = "ok"
    /\ lastCreate.attempt = 2
    /\ lastCreate.sleeps = <<100, 200>>
    /\ creates = <<>>

\* C28: a keep-alive call that throws leaves the timer as it is, issues no call of
\* its own and rejects nothing, and the next tick of a running timer pings as
\* before; a response with accepted = false leaves no timer; a response with
\* accepted = true changes no field of the trace.
C28_KeepAliveResponses ==
    [][ /\ keepAliveSettle("throw") =>
              /\ keepAliveTimer' = keepAliveTimer
              /\ kaInFlight' = kaInFlight - 1
              /\ UNCHANGED <<traceId, closed, content, creates, createVars, closeVars>>
              /\ (keepAliveTimer /\ Truthy(traceId) /\ ~closed) =>
                    (keepAliveTimer' /\ ~KeepAliveSkipped' /\ kaInFlight' < MaxKeepAliveInFlight)
        /\ keepAliveSettle("notAccepted") =>
              /\ ~keepAliveTimer'
              /\ UNCHANGED <<traceId, closed, content, creates, createVars, closeVars>>
        /\ keepAliveSettle("accepted") =>
              UNCHANGED <<traceId, closed, keepAliveTimer, content, config, creates,
                          createVars, closeVars, closedWarning>>
        /\ ~kaUnhandled'
      ]_vars

C28_Witness ==
    /\ kaRejected /\ ~keepAliveTimer
    /\ Truthy(traceId) /\ ~closed
    /\ kaInFlight = 0
    /\ creates = <<>>

\* C29: a trace never has more than one interval set, and the one it has is the
\* one it holds in keepAliveTimer; a create() that reaches startKeepAlive while a
\* timer exists, while the trace has no id or while it is closed (a create() on
\* the resume path whose call returned, or one on the create path that was
\* answered with success) sets no interval, keeps the timer as it is and is not
\* rejected, however the create() calls follow or overlap each other.
C29_AtMostOneTimer ==
    /\ [](intervals = IF keepAliveTimer THEN 1 ELSE 0)
    /\ [][ ( /\ Len(creates') < Len(creates)
             /\ (lastCreate'.path = "update" /\ lastCreate'.outcome # "threw")
                   \/ (lastCreate'.path = "send" /\ lastCreate'.outcome = "ok")
             /\ keepAliveTimer \/ ~Truthy(traceId') \/ closed ) =>
               /\ keepAliveTimer' = keepAliveTimer
               /\ intervals' = intervals
               /\ lastCreate'.result # REJECTED
         ]_vars

C29_Witness ==
    /\ keepAliveTimer /\ intervals = 1
    /\ createInvoked = MaxCreateCalls /\ creates = <<>>
    /\ sendGaveId
    /\ lastCreate.path = "update" /\ lastCreate.outcome = "ok"
    /\ ~kaRejected /\ ~closed

\* C30: closed is false until close() is called, a step makes it true only if it
\* is a close() call, and no step of any operation makes it false again.
C30_ClosedMonotonic ==
    /\ []((closePc = "none" /\ ~closeRepeated) => ~closed)
    /\ [][closed => closed']_vars
    /\ [][(~closed /\ closed') => \E r \in Reasons : close(r)]_vars

C30_Witness ==
    /\ closed /\ closePc = "done"
    /\ closedWarning = "setTraceId"
    /\ lastCreate.outcome = "ok"
    /\ kaRejected
    /\ tags # <<>>

\* ---------------------------------------------------------------- C31
IsPrefix(s, t) == Len(s) <= Len(t) /\ SubSeq(t, 1, Len(s)) = s

\* the payload p holds the trace content as it stands, entry by entry in order
HoldsContentInOrder(p) ==
    /\ p.tags = IF tags = <<>> THEN <<>> ELSE <<tags>>
    /\ Len(p.events) = Len(events)
    /\ \A k \in 1..Len(events) :
          p.events[k].name = events[k].eventName /\ p.events[k].details = events[k].details
    /\ Len(p.txHashHints) = Len(txHashHints)
    /\ \A k \in 1..Len(txHashHints) : p.txHashHints[k].txHash = txHashHints[k].txHash
    /\ p.attributes = IF \A k \in AttrKeys : attributes[k] = UNDEFINED
                        THEN <<>> ELSE <<attributes>>

\* C31: builder operations are applied in program order. Every step keeps the
\* tags, events and tx hints added so far in place and adds new ones after them,
\* addTag(t) and addTags(<<t, u>>) put their tags last in call order, addEvent(e)
\* puts its event last, addTxHint(h) puts its hint last, addAttribute(k, v)
\* replaces the value of k by the string of v, and the first request a create()
\* sends holds exactly the tags, events, tx hints and attribute values the trace
\* holds at that call, in the same order.
C31_ProgramOrder ==
    [][/\ IsPrefix(tags, tags') /\ IsPrefix(events, events')
       /\ IsPrefix(txHashHints, txHashHints')
       /\ \A t \in OrderedTags : (~closed /\ addTag(t)) => tags' = Append(tags, t)
       /\ \A t, u \in OrderedTags :
             (~closed /\ addTags(<<t, u>>)) => tags' = tags \o <<t, u>>
       /\ \A e \in OrderedEvents :
             (~closed /\ addEvent(e, UNDEFINED)) => events'[Len(events')].eventName = e
       /\ \A h \in OrderedTxHashes, c \in Chains :
             (~closed /\ addTxHint(h, c, [kind |-> "none", input |-> UNDEFINED,
                                          details |-> UNDEFINED])) =>
                 txHashHints'[Len(txHashHints')].txHash = h
       /\ \A k \in AttrKeys, v \in OrderedAttrInputs :
             (~closed /\ addAttribute(k, v)) => attributes'[k] = AttributeString(v)
       /\ Len(creates') > Len(creates) =>
             HoldsContentInOrder(creates'[Len(creates')].sent[1])]_vars

\* a create() has sent two different tags, two different events and two different
\* tx hints, and the value "v" of a key
C31_Witness ==
    \E i \in 1..Len(creates) :
        /\ creates[i].sent[1].tags = <<(<<"b", "a">>)>>
        /\ Len(creates[i].sent[1].events) = 2
        /\ creates[i].sent[1].events[1].name = "f" /\ creates[i].sent[1].events[2].name = "e"
        /\ Len(creates[i].sent[1].txHashHints) = 2
        /\ creates[i].sent[1].txHashHints[1].txHash = "0xi"
        /\ creates[i].sent[1].txHashHints[2].txHash = "0xh"
        /\ creates[i].sent[1].attributes = <<[k \in AttrKeys |-> "v"]>>

\* ---------------------------------------------------------------- C32
\* JSON.stringify({ input, details }) for the inputs explored, details being
\* left out of the object when undefined
TxDetailsJson(input, details) ==
    IF details = UNDEFINED
      THEN IF input = "0x" THEN "{\"input\":\"0x\"}" ELSE "{\"input\":\"0xdd\"}"
      ELSE "{\"input\":\"0xdd\",\"details\":\"d\"}"

\* C32: addTxHint(txHash, chain, options) with an options object holding input
\* (and optionally details), and addTx(tx) with a transaction holding data or
\* input, record a tx hint whose details field is the JSON text of an object
\* holding that input (and the details).
C32_TxHintDetailsHoldInput ==
    [][/\ \A h \in TxHashes, c \in Chains, o \in TxHintOptionInputs :
             (~closed /\ o.kind = "object" /\ Truthy(o.input) /\ addTxHint(h, c, o)) =>
                 txHashHints'[Len(txHashHints')].details = TxDetailsJson(o.input, o.details)
       /\ \A tx \in TxInputs, c \in {UNDEFINED} \cup Chains :
             (~closed /\ (Truthy(tx.data) \/ Truthy(tx.input)) /\ addTx(tx, c)) =>
                 txHashHints'[Len(txHashHints')].details =
                     TxDetailsJson(IF tx.data # UNDEFINED THEN tx.data ELSE tx.input,
                                   UNDEFINED)]_vars

\* ---------------------------------------------------------------- C33
\* C33: a trace that was closed and holds a trace id had a closeTrace call issued
\* for it: no state in which every create(), close() and keep-alive call has
\* settled has closed = true, a non-null traceId and no closeTrace call issued.
C33_CloseTraceIssuedForObtainedId ==
    (/\ closed /\ Truthy(traceId)
     /\ creates = <<>> /\ closePc # "calling" /\ kaInFlight = 0) => closeTraceCalls > 0

\* ---------------------------------------------------------------- C34
\* C34: once close() has set the closed flag, no new _sendTrace or _updateTrace
\* attempt is started: no create() enters its first attempt and no create() that
\* waits in a backoff sleep goes on to its next attempt.
C34_NoAttemptAfterClose ==
    [][closed =>
          /\ Len(creates') <= Len(creates)
          /\ Len(creates') = Len(creates) =>
                \A i \in 1..Len(creates) : Len(creates'[i].sent) = Len(creates[i].sent)]_vars

\* ---------------------------------------------------------------- C35
\* C35: at most one _keepAlive call of the trace awaits its response at any time.
C35_OneKeepAliveInFlight == kaInFlight <= 1


\* C35 as amended: a tick issues at most one _keepAlive call, and only for an
\* open trace with an id whose timer runs; a call that still awaits its response
\* does not hold back the call of the next tick, so calls of one trace overlap
\* when a response takes longer than the interval.
C35_TicksDoNotWaitForResponses ==
    [][/\ kaInFlight' <= kaInFlight + 1
       /\ kaInFlight' > kaInFlight => keepAliveTimer /\ Truthy(traceId) /\ ~closed
       /\ (kaInFlight > 0 /\ TickDue /\ Truthy(traceId) /\ ~closed) => ENABLED TickPings]_vars

\* two _keepAlive calls of the trace await their responses
C35_Witness == kaInFlight = 2 /\ keepAliveTimer /\ ~closed

\* ---------------------------------------------------------------- C36
\* C36: a closed trace holds no keep-alive timer, in every reachable state: its
\* keepAliveTimer field is null and no interval it has set is still running,
\* also after a create() or a keep-alive call completed after close().
C36_ClosedHoldsNoTimer == closed => (~keepAliveTimer /\ intervals = 0)

\* a create() that was in flight when close() found the trace without id has
\* completed with a trace id, which it stored and tried to start the timer for
C36_Witness ==
    /\ closed /\ ~keepAliveTimer
    /\ closePc = "done" /\ closeTraceCalls = 0
    /\ lastCreate.outcome = "ok" /\ Truthy(lastCreate.result) /\ traceId = lastCreate.result
    /\ creates = <<>>

\* ---------------------------------------------------------------- C37
\* C37: all attempts of one create() call carry the same trace content: whatever
\* mutators are called while an attempt is in flight or during a backoff sleep,
\* every attempt sends the payload the first attempt sent.
C37_AttemptsCarrySameContent ==
    \A i \in 1..Len(creates) :
        \A k \in 1..Len(creates[i].sent) : creates[i].sent[k] = creates[i].sent[1]

\* ---------------------------------------------------------------- C38
\* a step in which a _sendTrace or _updateTrace call is made
AttemptStarted ==
    \/ Len(creates') > Len(creates)
    \/ /\ Len(creates') = Len(creates)
       /\ \E i \in 1..Len(creates) : Len(creates'[i].sent) > Len(creates[i].sent)

C39_GetTraceIdReturnsCreateResult ==
    [][(Len(creates') < Len(creates) /\ lastCreate'.result # UNDEFINED) =>
           traceId' = lastCreate'.result]_vars
====
